---- MODULE Spec2Model ----
(***************************************************************************)
(* The mixing pipeline of the RTMP translation mixer:                      *)
(*   - RTMPMixer (src/mixer.js): start / stop / updateVolumes / getStatus  *)
(*     around one fluent-ffmpeg command object,                            *)
(*   - BrowserAudioCapture (src/browser-audio.js, the class of lines       *)
(*     209-577): init / getAudioStream / cleanup,                          *)
(*   - the HTTP handlers that drive both (src/unnamed/part_000, the server *)
(*     of lines 239-613): POST /api/start, /api/stop, /api/volumes.        *)
(*                                                                         *)
(* Scheduling is Node's: one handler or event callback runs at a time and  *)
(* runs until it suspends on something only a later event can resolve (a   *)
(* timer, a child process, the browser).  A promise that is resolved       *)
(* during a callback resumes its awaiters in the microtask queue, before   *)
(* any other event or request is taken: such a continuation is part of the *)
(* action of the event that resolved it.                                   *)
(*                                                                         *)
(* The fluent-ffmpeg command object (an external library) is modelled by   *)
(* what mixer.js uses of it: run() spawns the child asynchronously and     *)
(* emits 'start' once it is spawned; exactly one of 'end' (exit code 0)    *)
(* and 'error' (spawn failure, non-zero exit, death by signal) is emitted  *)
(* when it is over; kill() signals the child if one is spawned and is a    *)
(* no-op otherwise.                                                        *)
(***************************************************************************)
EXTENDS Integers, Sequences, FiniteSets, TLC

\* Requests the server receives in one run.  A request has the number of its
\* arrival; the ffmpeg command, browser, page and capture subprocess it
\* creates (each request creates at most one of each) carry that number.
MaxReq == 3

\* Requests in one run when the audio mode acquires a source (browser, device)
MaxAcqReq == 2

Reqs == 1..MaxReq

Null == 0

\* JavaScript's undefined, among numbers
Undefined == -999

VARIABLES
    mixer,          \* the RTMPMixer instance: isRunning, ffmpegProcess, config
    procs,          \* the fluent-ffmpeg commands created by mixer.start()
    browserAudio,   \* the BrowserAudioCapture instance
    openBrowsers,   \* puppeteer browsers launched and not closed
    openPages,      \* pages opened and not closed
    captures,       \* capture / placeholder subprocesses alive
    audioFile,      \* audio-temp/browser-audio.wav exists
    appConfig,      \* the server's appConfig
    tasks,          \* the requests received: handler position and locals
    nreq,           \* number of requests received
    cleanups,       \* number of BrowserAudioCapture.cleanup() calls made
    faults          \* what fails in this run's environment (see Faults)

vars == <<mixer, procs, browserAudio, openBrowsers, openPages, captures,
          audioFile, appConfig, tasks, nreq, cleanups, faults>>

\* The whole state as one value: a handler is a function from state to state,
\* so that the continuations one event resumes compose inside one action.
State ==
    [mixer |-> mixer, procs |-> procs, browserAudio |-> browserAudio,
     openBrowsers |-> openBrowsers, openPages |-> openPages,
     captures |-> captures, audioFile |-> audioFile, appConfig |-> appConfig,
     tasks |-> tasks, nreq |-> nreq, cleanups |-> cleanups,
     faults |-> faults]

Becomes(S) ==
    /\ mixer' = S.mixer
    /\ procs' = S.procs
    /\ browserAudio' = S.browserAudio
    /\ openBrowsers' = S.openBrowsers
    /\ openPages' = S.openPages
    /\ captures' = S.captures
    /\ audioFile' = S.audioFile
    /\ appConfig' = S.appConfig
    /\ tasks' = S.tasks
    /\ nreq' = S.nreq
    /\ cleanups' = S.cleanups
    /\ faults' = S.faults

-----------------------------------------------------------------------------
\* Configuration values

InputUrl == "rtmp://localhost:1935/live/stream"

OutputUrl == "rtmp://out/key"

AudioPath == "audio-temp/browser-audio.wav"

NoPath == "null"

\* RTMPMixer constructor: this.config
MixerDefaultConfig ==
    [inputRtmpUrl |-> "", outputRtmpUrl |-> "", browserAudioPath |-> "",
     rtmpVolume |-> 100, browserVolume |-> 100, rtmpDelay |-> 0,
     browserDelay |-> 0, videoBitrate |-> "6000k"]

AudioModes == {"browser", "device", "url", "disabled", "other"}

\* POST /api/start, lines 357-422: the modes the switch has a case for
KnownModes == {"browser", "device", "url", "disabled"}

\* POST /api/start, lines 357 and 383: the modes that call init()
AcquiringModes == {"browser", "device"}

HttpUrl == "http://audio/stream"

FileUrl == "file:///tmp/audio.wav"

\* The scheme of the audio URLs configured here
Scheme(u) ==
    CASE u = HttpUrl -> "http"
      [] u = FileUrl -> "file"
      [] OTHER -> ""

\* loadConfig(): defaultConfig with the audio mode and the mode's source
\* (browserUrl, audioDeviceName, audioUrl; '' when not configured)
AppDefaultConfig(mode) ==
    [rtmpInput |-> InputUrl, rtmpOutput |-> OutputUrl,
     rtmpVolume |-> 100, browserVolume |-> 100, rtmpDelay |-> 0,
     browserDelay |-> 0, videoBitrate |-> "6000k", audioMode |-> mode,
     browserUrl |-> "http://page", audioDeviceName |-> "BlackHole",
     audioUrl |-> HttpUrl]

\* loadConfig(): the configurations a run starts with
AppConfigs ==
    {AppDefaultConfig(m) : m \in AudioModes}
    \cup {[AppDefaultConfig("browser") EXCEPT !.browserUrl = ""],
          [AppDefaultConfig("device") EXCEPT !.audioDeviceName = ""],
          [AppDefaultConfig("url") EXCEPT !.audioUrl = ""],
          [AppDefaultConfig("url") EXCEPT !.audioUrl = FileUrl]}

\* (a start request that acquires a source in every mode)
AcquiresAlways(a) == TRUE

\* POST /api/start, lines 357-359 and 383-385: the source is acquired in
\* browser mode with a browserUrl and in device mode with an audioDeviceName
Acquires(a) ==
    \/ a.audioMode = "browser" /\ a.browserUrl # ""
    \/ a.audioMode = "device" /\ a.audioDeviceName # ""

\* A JavaScript string or null in a condition
Truthy(x) == x # "" /\ x # NoPath

\* The documented ranges: volumes 0-200 %, delays 0-5000 ms
MaxVolume == 200

MaxDelay == 5000

\* Bodies of POST /api/volumes: each field a number or absent (undefined);
\* the last one is out of the documented ranges.
VolumeBodies ==
    { [rtmpVolume |-> 50, browserVolume |-> Undefined,
       rtmpDelay |-> Undefined, browserDelay |-> Undefined],
      [rtmpVolume |-> 150, browserVolume |-> 50,
       rtmpDelay |-> Undefined, browserDelay |-> 200],
      [rtmpVolume |-> Undefined, browserVolume |-> Undefined,
       rtmpDelay |-> 500, browserDelay |-> Undefined],
      [rtmpVolume |-> 250, browserVolume |-> Undefined,
       rtmpDelay |-> Undefined, browserDelay |-> 6000] }

\* What can fail at teardown: kill() of a spawned child throws (the signal
\* cannot be delivered) and the child lives on; unlinkSync() of the audio
\* file throws and the file stays.
Faults == {"kill", "unlink"}

-----------------------------------------------------------------------------
\* Records

NoProc ==
    [st |-> "none", sig |-> "none", overdue |-> FALSE, listeners |-> <<>>,
     config |-> MixerDefaultConfig]

\* A start(config) argument: either the very object this.config refers to
\* (updateVolumes passes this.config itself) or an object of its own.
NoArg == [alias |-> FALSE, val |-> MixerDefaultConfig]

NoBody ==
    [rtmpVolume |-> Undefined, browserVolume |-> Undefined,
     rtmpDelay |-> Undefined, browserDelay |-> Undefined]

\* A request: its kind, where its handler stands (pc), the handler's locals
\* (arg, path), its body and response, and what it found on arrival: the
\* phase of the pipeline (saw) and whether another request was in flight.
NoTask ==
    [kind |-> "none", pc |-> "none", arg |-> NoArg, path |-> NoPath,
     result |-> "none", saw |-> "none", overlap |-> FALSE, body |-> NoBody]

InFlight(S) == {t \in Reqs : S.tasks[t].kind # "none" /\ S.tasks[t].pc # "done"}

\* Commands that are spawned or about to be, and those spawned
Pending(S) == {p \in Reqs : S.procs[p].st \in {"created", "alive"}}

Alive(S) == {p \in Reqs : S.procs[p].st = "alive"}

\* The phase of the pipeline: idle (no command, not running), starting (the
\* command held is the only one and is not spawned yet), running (the command
\* held is the only one, is spawned, and isRunning is set), or neither.
Phase(S) ==
    LET p == S.mixer.ffmpegProcess IN
    CASE Pending(S) = {} /\ ~S.mixer.isRunning -> "idle"
      [] Pending(S) = {p} /\ S.procs[p].st = "created" /\ ~S.mixer.isRunning
           -> "starting"
      [] Pending(S) = {p} /\ S.procs[p].st = "alive" /\ S.mixer.isRunning
           -> "running"
      [] OTHER -> "other"

-----------------------------------------------------------------------------
\* RTMPMixer

\* (a merge that ignores the argument)
KeepOld(old, new) == old

\* { ...this.config, ...config }: every key of the argument overrides
MergeConfig(old, new) ==
    [k \in DOMAIN old |-> IF k \in DOMAIN new THEN new[k] ELSE old[k]]

\* (a start() that always stops first)
StartAlwaysStops(S) == TRUE

\* (a start() that never stops the running command first)
StartNeverStops(S) == FALSE

\* start(), line 21: a running mixer is stopped first
StartStopsFirst(S) == S.mixer.isRunning

\* stop(), line 189: there is a command to wait for
StopWaits(S) == S.mixer.ffmpegProcess # Null

\* ffmpegProcess.kill('SIGTERM'): the child is signalled if it is spawned
Kill(pr) == IF pr.st = "alive" THEN [pr EXCEPT !.sig = "SIGTERM"] ELSE pr

\* kill() throws: the child is spawned and signals cannot be delivered
KillThrows(S, pr) == pr.st = "alive" /\ "kill" \in S.faults

\* stop(): with a command, add an 'end' listener, signal it and wait for the
\* listener to resolve; without one, clear isRunning and return.  When
\* kill() throws the promise is rejected: the listener stays, with nobody
\* waiting for it (Null), and the caller gets the exception ("threw").
MixerStop(S, t) ==
    IF StopWaits(S)
    THEN LET p == S.mixer.ffmpegProcess IN
         IF KillThrows(S, S.procs[p])
         THEN [S EXCEPT !.procs[p].listeners = Append(@, Null),
                        !.tasks[t].pc = "threw"]
         ELSE [S EXCEPT
                 !.procs[p] = Kill([@ EXCEPT !.listeners = Append(@, t)]),
                 !.tasks[t].pc = "awaitEnd"]
    ELSE [S EXCEPT !.mixer.isRunning = FALSE]

\* The value of a start() argument when it is read
ArgValue(S, arg) == IF arg.alias THEN S.mixer.config ELSE arg.val

\* start() from line 26 on: merge the config into a new object, build the
\* command from it, keep it in this.ffmpegProcess, run() it, return true.
\* The objects other suspended start() calls hold stay as they are now; the
\* request keeps the object it gave, unless that was this.config itself.
MixerSpawn(S, t, arg) ==
    LET merged == MergeConfig(S.mixer.config, ArgValue(S, arg))
        frozen == [u \in Reqs |->
                     IF u # t /\ S.tasks[u].arg.alias
                     THEN [S.tasks[u] EXCEPT
                             !.arg = [alias |-> FALSE, val |-> S.mixer.config]]
                     ELSE S.tasks[u]]
    IN [S EXCEPT !.mixer.config = merged,
                 !.mixer.ffmpegProcess = t,
                 !.procs[t] = [NoProc EXCEPT !.st = "created", !.config = merged],
                 !.tasks = [frozen EXCEPT
                              ![t].arg = IF arg.alias THEN NoArg ELSE arg]]

\* start(), lines 58-67: the options of the secondary input, if there is one
SecondaryInputOptions(c) ==
    IF Truthy(c.browserAudioPath)
    THEN <<"-re", "-stream_loop", "-1", "-thread_queue_size", "1024",
           "-fflags", "+igndts">>
    ELSE <<>>

\* One option of a filter: volume=a/b, adelay=a|b, setpts=PTS+(a/b)/TB,
\* amix=inputs=a:duration=longest:dropout_transition=b
Volume(v) == [op |-> "volume", a |-> v, b |-> 100]

Adelay(ms) == [op |-> "adelay", a |-> ms, b |-> ms]

Setpts(ms) == [op |-> "setpts", a |-> ms, b |-> 1000]

Amix == [op |-> "amix:duration=longest", a |-> 2, b |-> 2]

\* One filter of the graph: [src...]ops[dst]
Filter(src, ops, dst) == [src |-> src, ops |-> ops, dst |-> dst]

\* (an audio filter that never delays)
AudioFilterNoDelay(src, vol, ms, dst) == Filter(<<src>>, <<Volume(vol)>>, dst)

\* start(), lines 82-94 and 105-111: the filter of one audio stream
AudioFilter(src, vol, ms, dst) ==
    Filter(<<src>>, IF ms > 0 THEN <<Volume(vol), Adelay(ms)>>
                    ELSE <<Volume(vol)>>, dst)

\* (a graph that never filters the video)
NoVideoFilters(c) == <<>>

\* start(), lines 77-80 and 105-106: the video filter, if the video is delayed
VideoFilters(c) ==
    IF c.rtmpDelay > 0 THEN <<Filter(<<"0:v">>, <<Setpts(c.rtmpDelay)>>, "v0")>>
    ELSE <<>>

\* (a graph that never merges)
FilterComplexNoMerge(c) ==
    VideoFilters(c) \o <<AudioFilter("0:a", c.rtmpVolume, c.rtmpDelay, "aout")>>

\* start(), lines 69-114: filterComplex, the filters in order
FilterComplex(c) ==
    IF Truthy(c.browserAudioPath)
    THEN VideoFilters(c)
         \o <<AudioFilter("0:a", c.rtmpVolume, c.rtmpDelay, "a0"),
              AudioFilter("1:a", c.browserVolume, c.browserDelay, "a1"),
              Filter(<<"a0", "a1">>, <<Amix>>, "aout")>>
    ELSE VideoFilters(c)
         \o <<AudioFilter("0:a", c.rtmpVolume, c.rtmpDelay, "aout")>>

\* start(), lines 116-150: outputOptions
OutputOptions(c) ==
    LET needsVideoFilter == c.rtmpDelay > 0 IN
    <<IF needsVideoFilter THEN <<"-map", "[v0]">> ELSE <<"-map", "0:v">>,
      <<"-map", "[aout]">>>>
    \o (IF needsVideoFilter
        THEN <<(<<"-c:v", "libx264">>), <<"-preset", "ultrafast">>,
               <<"-b:v", c.videoBitrate>>>>
        ELSE <<(<<"-c:v", "copy">>)>>)
    \o <<(<<"-c:a", "aac">>), <<"-b:a", "192k">>, <<"-ar", "48000">>,
          <<"-ac", "2">>, <<"-f", "flv">>,
          <<"-flvflags", "no_duration_filesize">>>>

\* start(), lines 48-155: the command built from this.config
BuildGraph(c) ==
    [inputs |-> IF Truthy(c.browserAudioPath)
                THEN <<c.inputRtmpUrl, c.browserAudioPath>>
                ELSE <<c.inputRtmpUrl>>,
     primaryOptions |-> <<"-thread_queue_size", "512", "-re",
                          "-fflags", "+genpts">>,
     secondaryOptions |-> SecondaryInputOptions(c),
     filterComplex |-> FilterComplex(c),
     outputOptions |-> OutputOptions(c),
     output |-> c.outputRtmpUrl]

\* start(config): lines 20-24, then the rest unless stop() has to be awaited
MixerStart(S, t, arg) ==
    IF StartStopsFirst(S)
    THEN LET S1 == MixerStop([S EXCEPT !.tasks[t].arg = arg], t) IN
         IF S1.tasks[t].pc \in {"awaitEnd", "threw"} THEN S1
         ELSE MixerSpawn(S1, t, arg)
    ELSE MixerSpawn(S, t, arg)

\* (an update that is applied whether the mixer runs or not)
UpdateAlways(S) == TRUE

\* updateVolumes(), line 206: only a running mixer is updated
UpdateApplies(S) == S.mixer.isRunning

\* (an update that keeps the old value)
GivenIgnored(x, old) == old

\* x !== undefined ? x : this.config.x
Given(x, old) == IF x # Undefined THEN x ELSE old

\* (an update that resets the whole config)
UpdateResets(S, t, rv, bv, rd, bd) ==
    [S EXCEPT !.mixer.config = MixerDefaultConfig]

\* updateVolumes(rtmpVolume, browserVolume, rtmpDelay, browserDelay)
MixerUpdateVolumes(S, t, rv, bv, rd, bd) ==
    IF UpdateApplies(S)
    THEN LET c == S.mixer.config
             S1 == [S EXCEPT !.mixer.config =
                      [c EXCEPT !.rtmpVolume = Given(rv, c.rtmpVolume),
                                !.browserVolume = Given(bv, c.browserVolume),
                                !.rtmpDelay = Given(rd, c.rtmpDelay),
                                !.browserDelay = Given(bd, c.browserDelay)]]
         IN MixerStart(S1, t, [alias |-> TRUE, val |-> MixerDefaultConfig])
    ELSE S

\* getStatus()
GetStatus(S) == [isRunning |-> S.mixer.isRunning, config |-> S.mixer.config]

-----------------------------------------------------------------------------
\* The handlers' common steps

\* res.json(...) / res.status(500).json(...): the request is over
Respond(S, t, r) == [S EXCEPT !.tasks[t].pc = "done", !.tasks[t].result = r]

\* POST /api/start, lines 428-447: mixer.start({...}) with the values
\* appConfig holds now and the path the acquisition produced, then respond.
ServerStartMixer(S, t, path) ==
    LET a == S.appConfig
        arg == [alias |-> FALSE,
                val |-> [inputRtmpUrl |-> a.rtmpInput,
                         outputRtmpUrl |-> a.rtmpOutput,
                         browserAudioPath |-> path,
                         rtmpVolume |-> a.rtmpVolume,
                         browserVolume |-> a.browserVolume,
                         rtmpDelay |-> a.rtmpDelay,
                         browserDelay |-> a.browserDelay,
                         videoBitrate |-> a.videoBitrate]]
        S1 == MixerStart([S EXCEPT !.tasks[t].path = path], t, arg)
    IN CASE S1.tasks[t].pc = "awaitEnd" -> S1
         [] S1.tasks[t].pc = "threw" -> Respond(S1, t, "error")
         [] OTHER -> Respond(S1, t, "ok")

-----------------------------------------------------------------------------
\* BrowserAudioCapture

\* (an init() failure that fails the request)
InitErrorPropagates(S, t) == Respond(S, t, "error")

\* cleanup() is over.  In POST /api/stop the handler responds; in init()'s
\* catch the error is rethrown to POST /api/start, whose catch goes on
\* without secondary audio.
AfterCleanup(S, t) ==
    IF S.tasks[t].kind = "stop" THEN Respond(S, t, "ok")
    ELSE ServerStartMixer(S, t, NoPath)

\* (a cleanup() that leaves the audio file)
CleanupKeepsFile(S, t) == AfterCleanup(S, t)

\* cleanup(), lines 560-567: delete the audio file; a failure is logged
CleanupFinish(S, t) ==
    AfterCleanup([S EXCEPT !.audioFile = @ /\ "unlink" \in S.faults], t)

\* cleanup(), lines 551-558: close the browser held, if any
CleanupBrowser(S, t) ==
    LET b == S.browserAudio.browser IN
    IF b # Null
    THEN [S EXCEPT !.openBrowsers = @ \ {b}, !.openPages = @ \ {b},
                   !.tasks[t].pc = "browserClose"]
    ELSE CleanupFinish(S, t)

\* cleanup(), lines 528-549: clear isRunning, kill the capture subprocess
\* held and drop the reference (a kill() that throws skips line 535, the
\* reference stays), close the page held, if any
Cleanup(S, t) ==
    LET c == S.browserAudio.ffmpegProcess
        g == S.browserAudio.page
        throws == c \in S.captures /\ "kill" \in S.faults
        S1 == [S EXCEPT !.cleanups = @ + 1,
                        !.browserAudio.isRunning = FALSE,
                        !.browserAudio.ffmpegProcess = IF throws THEN c ELSE Null,
                        !.captures = IF throws THEN @ ELSE @ \ {c}]
    IN IF g # Null
       THEN [S1 EXCEPT !.openPages = @ \ {g}, !.tasks[t].pc = "pageClose"]
       ELSE CleanupBrowser(S1, t)

\* init(config), lines 219-251: store the config and launch the browser
Init_(S, t, mode) ==
    IF mode = "url"
    THEN [S EXCEPT !.browserAudio.mode = mode, !.browserAudio.isRunning = TRUE]
    ELSE [S EXCEPT !.browserAudio.mode = mode, !.tasks[t].pc = "launch"]

\* captureFromDevice(), lines 411-437 / captureFromBrowser(), lines 473-496:
\* spawn the subprocess that writes the audio file and wait for the timer
SpawnCapture(S, t) ==
    [S EXCEPT !.captures = @ \cup {t}, !.browserAudio.ffmpegProcess = t,
              !.tasks[t].pc = "fileWait"]

\* getAudioStream(), lines 351-375, as POST /api/start calls it
GetAudioStream(S, t) ==
    IF ~S.browserAudio.isRunning THEN ServerStartMixer(S, t, NoPath)
    ELSE CASE S.browserAudio.mode = "device" -> SpawnCapture(S, t)
           [] S.browserAudio.mode = "url" -> ServerStartMixer(S, t, NoPath)
           [] OTHER ->
                IF S.browserAudio.page = Null
                THEN ServerStartMixer(S, t, NoPath)
                ELSE [S EXCEPT !.tasks[t].pc = "cdp"]

-----------------------------------------------------------------------------
\* Initial state: the constructors have run, the configuration is loaded.

Constructed ==
    /\ mixer = [isRunning |-> FALSE, ffmpegProcess |-> Null,
                config |-> MixerDefaultConfig]
    /\ procs = [p \in Reqs |-> NoProc]
    /\ browserAudio = [isRunning |-> FALSE, browser |-> Null, page |-> Null,
                       ffmpegProcess |-> Null, mode |-> "none"]
    /\ openBrowsers = {}
    /\ openPages = {}
    /\ captures = {}
    /\ audioFile = FALSE
    /\ tasks = [t \in Reqs |-> NoTask]
    /\ nreq = 0
    /\ cleanups = 0

\* A run in which nothing fails at teardown
Init == Constructed /\ appConfig \in AppConfigs /\ faults = {}

\* The requests of one run are bounded
CanArrive ==
    nreq < (IF appConfig.audioMode \in AcquiringModes THEN MaxAcqReq ELSE MaxReq)

\* A request arrives: its handler starts in the state S
Arrive(S, kind) ==
    LET t == S.nreq + 1 IN
    [S EXCEPT !.nreq = t,
              !.tasks[t] = [NoTask EXCEPT !.kind = kind, !.pc = "new",
                                          !.saw = Phase(S),
                                          !.overlap = InFlight(S) # {}]]

-----------------------------------------------------------------------------
\* Requests

\* POST /api/start, lines 348-426: the handler, up to its first wait
StartHandler ==
    LET t == nreq + 1
        S == Arrive(State, "start")
        m == appConfig.audioMode
    IN Becomes(CASE Acquires(appConfig) -> Init_(S, t, m)
                 [] m = "url" /\ Truthy(appConfig.audioUrl) ->
                      ServerStartMixer(S, t, appConfig.audioUrl)
                 [] OTHER -> ServerStartMixer(S, t, NoPath))

StartRequest == CanArrive /\ StartHandler

\* POST /api/stop, lines 455-478: the handler, up to its first wait
StopHandler ==
    LET t == nreq + 1
        S == MixerStop(Arrive(State, "stop"), t)
    IN Becomes(IF S.tasks[t].pc = "awaitEnd" THEN S ELSE Cleanup(S, t))

StopRequest == CanArrive /\ StopHandler

\* POST /api/volumes, lines 481-517: the handler, up to its first wait
VolumesHandler ==
    \E b \in VolumeBodies :
        LET t == nreq + 1
            S0 == Arrive(State, "volumes")
            a == [appConfig EXCEPT
                    !.rtmpVolume = Given(b.rtmpVolume, @),
                    !.browserVolume = Given(b.browserVolume, @),
                    !.rtmpDelay = Given(b.rtmpDelay, @),
                    !.browserDelay = Given(b.browserDelay, @)]
            S1 == [S0 EXCEPT !.appConfig = a, !.tasks[t].body = b]
            S2 == MixerUpdateVolumes(S1, t, a.rtmpVolume, a.browserVolume,
                                     a.rtmpDelay, a.browserDelay)
        IN Becomes(CASE S2.tasks[t].pc = "awaitEnd" -> S2
                     [] S2.tasks[t].pc = "threw" -> Respond(S2, t, "error")
                     [] OTHER -> Respond(S2, t, "ok"))

VolumesRequest == CanArrive /\ VolumesHandler

\* BrowserAudioCapture.getStatus()
CaptureGetStatus(S) ==
    [isRunning |-> S.browserAudio.isRunning,
     hasPage |-> S.browserAudio.page # Null,
     hasBrowser |-> S.browserAudio.browser # Null]

\* (a status read that clears isRunning)
StatusClears(S) == [S EXCEPT !.mixer.isRunning = FALSE]

\* The state after mixer.getStatus() and browserAudio.getStatus(): neither
\* assigns anything (mixer.js:216-221, browser-audio.js:570-576)
StatusRead(S) == S

\* GET /api/status, lines 340-345
StatusHandler ==
    LET t == nreq + 1 IN
    Becomes(Respond(StatusRead(Arrive(State, "status")), t, "ok"))

-----------------------------------------------------------------------------
\* Source acquisition: the steps of POST /api/start that wait

At(t, pc) == tasks[t].kind # "none" /\ tasks[t].pc = pc

\* puppeteer.launch() resolves: line 238, then newPage() is awaited
LaunchDone(t) ==
    /\ At(t, "launch")
    /\ Becomes([State EXCEPT !.openBrowsers = @ \cup {t},
                             !.browserAudio.browser = t,
                             !.tasks[t].pc = "newPage"])

\* browser.newPage() resolves: line 253, then the page is set up
NewPageDone(t) ==
    /\ At(t, "newPage")
    /\ t \in openBrowsers
    /\ Becomes([State EXCEPT !.openPages = @ \cup {t},
                             !.browserAudio.page = t,
                             !.tasks[t].pc = "navigate"])

\* lines 256-291: viewport, navigation, scripts and actions are done;
\* then POST /api/start waits 2 s
NavigateDone(t) ==
    /\ At(t, "navigate")
    /\ Becomes([State EXCEPT !.browserAudio.isRunning = TRUE,
                             !.tasks[t].pc = "stabilize"])

\* lines 292-296: a step of init() throws; cleanup() and rethrow
InitFail(t) ==
    /\ At(t, "launch") \/ At(t, "newPage") \/ At(t, "navigate")
    /\ Becomes(Cleanup(State, t))

\* the 2 s are over: getAudioStream()
Stabilized(t) ==
    /\ At(t, "stabilize")
    /\ Becomes(GetAudioStream(State, t))

\* captureFromBrowser(), lines 447-468: the CDP session and the script are done
CdpDone(t) ==
    /\ At(t, "cdp")
    /\ Becomes(SpawnCapture(State, t))

\* captureFromBrowser(), lines 498-501: one of them throws, null is returned
CdpFail(t) ==
    /\ At(t, "cdp")
    /\ Becomes(ServerStartMixer(State, t, NoPath))

\* the timer of lines 428-436 / 487-495 fires
FileWaitDone(t) ==
    /\ At(t, "fileWait")
    /\ Becomes(ServerStartMixer(State, t,
                                IF audioFile THEN AudioPath ELSE NoPath))

\* the subprocess emits 'error' (lines 422-425 / 482-485): the promise is
\* rejected and getAudioStream() returns null
CaptureError(t) ==
    /\ At(t, "fileWait")
    /\ t \in captures
    /\ Becomes(ServerStartMixer([State EXCEPT !.captures = @ \ {t}], t, NoPath))

\* a capture subprocess creates the audio file
CaptureWrites(c) ==
    /\ c \in captures
    /\ ~audioFile
    /\ Becomes([State EXCEPT !.audioFile = TRUE])

\* a capture subprocess ends by itself
CaptureExit(c) ==
    /\ c \in captures
    /\ Becomes([State EXCEPT !.captures = @ \ {c}])

\* cleanup(): page.close() is over, line 548
PageClosed(t) ==
    /\ At(t, "pageClose")
    /\ Becomes(CleanupBrowser([State EXCEPT !.browserAudio.page = Null], t))

\* cleanup(): browser.close() is over, line 557
BrowserClosed(t) ==
    /\ At(t, "browserClose")
    /\ Becomes(CleanupFinish([State EXCEPT !.browserAudio.browser = Null], t))

-----------------------------------------------------------------------------
\* Events of the ffmpeg command

\* 'start', lines 159-162
ProcStart(p) ==
    /\ procs[p].st = "created"
    /\ Becomes([State EXCEPT !.procs[p].st = "alive",
                             !.mixer.isRunning = TRUE])

\* 'error', lines 168-172: the child could not be spawned ("failed") or it
\* was spawned and is over with a non-zero exit or a signal ("exited")
ProcError(p) ==
    /\ procs[p].st \in {"created", "alive"}
    /\ Becomes([State EXCEPT
                 !.procs[p] = [NoProc EXCEPT
                                 !.st = IF procs[p].st = "created"
                                        THEN "failed" ELSE "exited",
                                 !.listeners = procs[p].listeners],
                 !.mixer.isRunning = FALSE])

\* What a request does once the stop() it awaits has resolved
Continue(S, t) ==
    IF S.tasks[t].kind = "stop" THEN Cleanup(S, t)
    ELSE Respond(MixerSpawn(S, t, S.tasks[t].arg), t, "ok")

RECURSIVE Resume(_, _)
Resume(S, ts) ==
    IF ts = <<>> THEN S
    ELSE Resume(IF Head(ts) = Null THEN S ELSE Continue(S, Head(ts)), Tail(ts))

\* stop()'s 'end' listener, lines 192-196
StopListener(m) == [m EXCEPT !.isRunning = FALSE, !.ffmpegProcess = Null]

\* 'end': the listener of lines 173-176, then those stop() added, in order;
\* the requests they resolve go on in that order
ProcEnd(p) ==
    /\ procs[p].st = "alive"
    /\ LET ls == procs[p].listeners
           S1 == [State EXCEPT !.procs[p] = [NoProc EXCEPT !.st = "exited"],
                               !.mixer.isRunning = FALSE]
           S2 == IF ls = <<>> THEN S1
                 ELSE [S1 EXCEPT !.mixer = StopListener(@)]
       IN Becomes(Resume(S2, ls))

\* time passes: a signalled process has had its grace period
GraceElapsed(p) ==
    /\ procs[p].st = "alive"
    /\ procs[p].sig = "SIGTERM"
    /\ ~procs[p].overdue
    /\ Becomes([State EXCEPT !.procs[p].overdue = TRUE])

-----------------------------------------------------------------------------
Next ==
    \/ StartRequest
    \/ StopRequest
    \/ VolumesRequest
    \/ \E t \in Reqs : LaunchDone(t)
    \/ \E t \in Reqs : NewPageDone(t)
    \/ \E t \in Reqs : NavigateDone(t)
    \/ \E t \in Reqs : InitFail(t)
    \/ \E t \in Reqs : Stabilized(t)
    \/ \E t \in Reqs : CdpDone(t)
    \/ \E t \in Reqs : CdpFail(t)
    \/ \E t \in Reqs : FileWaitDone(t)
    \/ \E t \in Reqs : CaptureError(t)
    \/ \E c \in Reqs : CaptureWrites(c)
    \/ \E c \in Reqs : CaptureExit(c)
    \/ \E t \in Reqs : PageClosed(t)
    \/ \E t \in Reqs : BrowserClosed(t)
    \/ \E p \in Reqs : ProcStart(p)
    \/ \E p \in Reqs : ProcError(p)
    \/ \E p \in Reqs : ProcEnd(p)
    \/ \E p \in Reqs : GraceElapsed(p)

Spec == Init /\ [][Next]_vars

\* The mixer alone: the server in an audio mode that acquires nothing, where
\* POST /api/start is mixer.start(), POST /api/stop is mixer.stop() and
\* POST /api/volumes is mixer.updateVolumes().
MixerInit == Init /\ appConfig.audioMode \notin AcquiringModes

MixerNext ==
    \/ StartRequest
    \/ StopRequest
    \/ VolumesRequest
    \/ \E p \in Reqs : ProcStart(p)
    \/ \E p \in Reqs : ProcError(p)
    \/ \E p \in Reqs : ProcEnd(p)
    \/ \E p \in Reqs : GraceElapsed(p)

MixerSpec == MixerInit /\ [][MixerNext]_vars

\* Teardown: a run in a mode that acquires a source, with one start request
\* and stop requests after it.
TeardownInit == Init /\ Acquires(appConfig)

FirstRequest == nreq = 0 /\ StartHandler

LaterStop == nreq >= 1 /\ nreq < MaxReq /\ StopHandler

TeardownNext ==
    \/ FirstRequest
    \/ LaterStop
    \/ \E t \in Reqs : LaunchDone(t)
    \/ \E t \in Reqs : NewPageDone(t)
    \/ \E t \in Reqs : NavigateDone(t)
    \/ \E t \in Reqs : InitFail(t)
    \/ \E t \in Reqs : Stabilized(t)
    \/ \E t \in Reqs : CdpDone(t)
    \/ \E t \in Reqs : CdpFail(t)
    \/ \E t \in Reqs : FileWaitDone(t)
    \/ \E t \in Reqs : CaptureError(t)
    \/ \E c \in Reqs : CaptureWrites(c)
    \/ \E c \in Reqs : CaptureExit(c)
    \/ \E t \in Reqs : PageClosed(t)
    \/ \E t \in Reqs : BrowserClosed(t)
    \/ \E p \in Reqs : ProcStart(p)
    \/ \E p \in Reqs : ProcError(p)
    \/ \E p \in Reqs : ProcEnd(p)
    \/ \E p \in Reqs : GraceElapsed(p)

TeardownSpec == TeardownInit /\ [][TeardownNext]_vars

\* Live updates: a run in a mode that acquires a source, with one start
\* request and volumes requests after it.
LaterVolumes == nreq >= 1 /\ nreq < MaxReq /\ VolumesHandler

LiveNext ==
    \/ FirstRequest
    \/ LaterVolumes
    \/ \E t \in Reqs : LaunchDone(t)
    \/ \E t \in Reqs : NewPageDone(t)
    \/ \E t \in Reqs : NavigateDone(t)
    \/ \E t \in Reqs : InitFail(t)
    \/ \E t \in Reqs : Stabilized(t)
    \/ \E t \in Reqs : CdpDone(t)
    \/ \E t \in Reqs : CdpFail(t)
    \/ \E t \in Reqs : FileWaitDone(t)
    \/ \E t \in Reqs : CaptureError(t)
    \/ \E c \in Reqs : CaptureWrites(c)
    \/ \E c \in Reqs : CaptureExit(c)
    \/ \E t \in Reqs : PageClosed(t)
    \/ \E t \in Reqs : BrowserClosed(t)
    \/ \E p \in Reqs : ProcStart(p)
    \/ \E p \in Reqs : ProcError(p)
    \/ \E p \in Reqs : ProcEnd(p)
    \/ \E p \in Reqs : GraceElapsed(p)

LiveSpec == TeardownInit /\ [][LiveNext]_vars

\* Status reads: a start request in a mode that acquires a source, then
\* stop and status requests.
LaterStatus == nreq >= 1 /\ nreq < MaxReq /\ StatusHandler

StatusNext == TeardownNext \/ LaterStatus

StatusSpec == TeardownInit /\ [][StatusNext]_vars

\* Teardown in an environment where something fails
FaultInit ==
    /\ Constructed
    /\ appConfig \in AppConfigs
    /\ faults \in (SUBSET Faults) \ {{}}
    /\ Acquires(appConfig)

FaultSpec == FaultInit /\ [][TeardownNext]_vars

\* Every request and event, in an environment where something fails
FaultyRunSpec == FaultInit /\ [][Next]_vars

\* Graph construction: one start request, with every combination of volumes
\* and delays from the ends and the inside of their ranges, with a secondary
\* source (url mode) and without (disabled mode).
GraphVolumes == {0, 1, 100, MaxVolume}

GraphDelays == {0, 1, MaxDelay}

GraphConfigs ==
    {[AppDefaultConfig(m) EXCEPT !.rtmpVolume = rv, !.browserVolume = bv,
                                 !.rtmpDelay = rd, !.browserDelay = bd] :
        m \in {"url", "disabled"}, rv \in GraphVolumes, bv \in GraphVolumes,
        rd \in GraphDelays, bd \in GraphDelays}

GraphInit == Constructed /\ appConfig \in GraphConfigs /\ faults = {}

GraphNext ==
    \/ FirstRequest
    \/ \E p \in Reqs : ProcStart(p)
    \/ \E p \in Reqs : ProcError(p)
    \/ \E p \in Reqs : ProcEnd(p)

GraphSpec == GraphInit /\ [][GraphNext]_vars

-----------------------------------------------------------------------------
\* Properties

\* C1: in every reachable state at most one ffmpeg process spawned by the
\* mixer is alive, whatever the interleaving of start, stop, updateVolumes
\* and the 'start' / 'end' / 'error' events.
C1_AtMostOneTranscoder == Cardinality(Alive(State)) <= 1

\* The latest request is an updateVolumes() that found the pipeline running
\* (one command, held by the mixer, spawned) and no other request in flight.
SoloUpdate ==
    /\ nreq > 0
    /\ tasks[nreq].kind = "volumes"
    /\ tasks[nreq].saw = "running"
    /\ ~tasks[nreq].overlap

\* C2: a single updateVolumes() on a running mixer, with no other call in
\* flight, is a stop-then-start: the new command is created only once the
\* old process has ended, so that never two processes are alive or pending.
C2_RestartStopsThenStarts == SoloUpdate => Cardinality(Pending(State)) <= 1

\* C2's case: the update is over and the process it created is alive
C2_Restarted ==
    SoloUpdate /\ tasks[nreq].pc = "done" /\ procs[nreq].st = "alive"

\* Two updateVolumes() back to back: the first found the pipeline running and
\* nothing in flight; the second is the next request and arrived while the
\* first was in flight.
BackToBack ==
    /\ nreq >= 2
    /\ tasks[nreq - 1].kind = "volumes"
    /\ tasks[nreq - 1].saw = "running"
    /\ ~tasks[nreq - 1].overlap
    /\ tasks[nreq].kind = "volumes"
    /\ tasks[nreq].overlap

BothDone == tasks[nreq - 1].pc = "done" /\ tasks[nreq].pc = "done"

\* C3: two back-to-back updateVolumes() are carried out as two sequential
\* restarts, and at no point are two ffmpeg processes alive.
C3_BackToBackNeverTwo == BackToBack => Cardinality(Alive(State)) <= 1

LiveFields == {"rtmpVolume", "browserVolume", "rtmpDelay", "browserDelay"}

\* The config c carries every value the body b supplies
Carries(c, b) == \A k \in LiveFields : b[k] # Undefined => c[k] = b[k]

C5_StartsSerialized ==
    Cardinality({t \in InFlight(State) : tasks[t].kind = "start"}) <= 1

\* A start request, then a stop request, and no other request
StartThenStop ==
    /\ nreq = 2
    /\ tasks[1].kind = "start"
    /\ tasks[2].kind = "stop"

\* C6: a stop requested while a start is in flight cancels it: once both
\* requests are over, no browser, capture subprocess or ffmpeg process is
\* alive and the mixer is not running.
C6_StopCancelsStart ==
    StartThenStop /\ tasks[2].overlap /\ BothDone =>
        /\ openBrowsers = {}
        /\ captures = {}
        /\ Alive(State) = {}
        /\ ~mixer.isRunning

\* The commands whose 'end' the request t waits for
Awaited(t) ==
    {p \in Reqs : \E i \in 1..Len(procs[p].listeners) : procs[p].listeners[i] = t}

\* C7: stop() returns from any state (as a property of states: a stop() that
\* waits for a command's 'end' waits for a command that can still emit it).
C7_StopReturns ==
    \A t \in Reqs :
        tasks[t].kind = "stop" /\ tasks[t].pc = "awaitEnd" =>
            \A p \in Awaited(t) : procs[p].st \in {"created", "alive"}

\* C8: a process still alive when the grace period after stop()'s SIGTERM
\* is over has been force-killed.
C8_ForceKillAfterGrace ==
    \A p \in Reqs :
        procs[p].st = "alive" /\ procs[p].overdue => procs[p].sig = "SIGKILL"

\* C9: a start request that finds a transcoding process starting or running
\* is a no-op: it creates no command, signals none and leaves the config.
C9_StartRejectedUnlessIdle ==
    [][(/\ nreq' = nreq + 1
        /\ tasks'[nreq'].kind = "start"
        /\ Phase(State) \in {"starting", "running"})
       => /\ mixer'.config = mixer.config
          /\ \A p \in Reqs : /\ procs'[p].st = procs[p].st
                              /\ procs'[p].sig = procs[p].sig]_vars

\* C10: a start request immediately followed by a stop request leaves the
\* pipeline idle and has released the source exactly once.
C10_StartThenStopIdle ==
    StartThenStop /\ BothDone =>
        /\ ~mixer.isRunning
        /\ Pending(State) = {}
        /\ cleanups = 1

\* The command the mixer holds has exited and nothing has replaced it: the
\* 'error' / 'end' handler has cleared isRunning, no command is pending.
Failed(S) ==
    /\ ~S.mixer.isRunning
    /\ Pending(S) = {}
    /\ S.mixer.ffmpegProcess # Null
    /\ S.procs[S.mixer.ffmpegProcess].st \in {"exited", "failed"}

\* A command that nobody has asked to stop exits in this step
UnexpectedExit ==
    \E p \in Reqs :
        /\ procs[p].st \in {"created", "alive"}
        /\ procs[p].sig = "none"
        /\ procs[p].listeners = <<>>
        /\ procs'[p].st \in {"exited", "failed"}

\* C11: after the ffmpeg process has exited unexpectedly no command is
\* created but by a start request: the step of the exit creates none, and
\* from the failed state a stop or volumes request creates none.
C11_NoRestartWithoutStart ==
    [][(UnexpectedExit \/ Failed(State)) =>
          \A p \in Reqs :
              procs[p].st = "none" /\ procs'[p].st # "none" =>
                  tasks'[p].kind = "start"]_vars

\* C11's case: a start, the process exited, then an updateVolumes() that
\* found the failed state, is over and has created no command
C11_UpdateAfterFailure ==
    /\ nreq = 2
    /\ tasks[1].kind = "start"
    /\ tasks[2].kind = "volumes"
    /\ tasks[2].pc = "done"
    /\ tasks[2].saw = "idle"
    /\ Failed(State)
    /\ procs[2].st = "none"

\* The command the mixer holds was spawned and is over, and no stop() was
\* ever called on it
ExitedWhileRunning ==
    /\ Failed(State)
    /\ procs[mixer.ffmpegProcess].st = "exited"
    /\ procs[mixer.ffmpegProcess].listeners = <<>>

\* C12: once the process has exited unexpectedly while running, getStatus()
\* differs from what it returns after a normal stop of the same mixer (the
\* state stop()'s 'end' listener leaves).
C12_FailureReported ==
    ExitedWhileRunning =>
        GetStatus(State) # GetStatus([State EXCEPT !.mixer = StopListener(@)])

\* C13: a request whose command failed to launch has answered with an error,
\* not with success.
C13_LaunchFailureSurfaced ==
    \A p \in Reqs :
        procs[p].st = "failed" /\ tasks[p].pc = "done" =>
            tasks[p].result = "error"

\* Every value the body b supplies is within its documented range
InRange(b) ==
    /\ \A k \in {"rtmpVolume", "browserVolume"} :
          b[k] # Undefined => b[k] >= 0 /\ b[k] <= MaxVolume
    /\ \A k \in {"rtmpDelay", "browserDelay"} :
          b[k] # Undefined => b[k] >= 0 /\ b[k] <= MaxDelay

\* C14: a live-parameter update that supplies a value out of range changes
\* no state: the mixer (config, isRunning, command held) and every command
\* are as they were before the request.
C14_OutOfRangeRejected ==
    [][(/\ nreq' = nreq + 1
        /\ tasks'[nreq'].kind = "volumes"
        /\ ~InRange(tasks'[nreq'].body))
       => /\ mixer' = mixer
          /\ procs' = procs]_vars

\* C15: a start request in an audio mode that is none of disabled, url,
\* device, browser is rejected: with such a mode configured no transcoding
\* command is ever created and the mixer stays as constructed.
C15_UnknownModeRejected ==
    appConfig.audioMode \notin KnownModes =>
        /\ \A p \in Reqs : procs[p].st = "none"
        /\ mixer.ffmpegProcess = Null
        /\ mixer.config = MixerDefaultConfig

\* The start request t, in browser or device mode, is over and its
\* acquisition produced no path (init() threw, the capture subprocess
\* failed, or the audio file was not there when the timer fired)
AcquisitionFailed(t) ==
    /\ Acquires(appConfig)
    /\ tasks[t].kind = "start"
    /\ tasks[t].pc = "done"
    /\ tasks[t].path = NoPath

\* C16: a start request whose acquisition failed has not failed: it answered
\* with success and created a transcoding command, whose config has no
\* secondary input as long as the command is pending or alive.
C16_AcquisitionFailureNotFatal ==
    \A t \in Reqs :
        AcquisitionFailed(t) =>
            /\ tasks[t].result = "ok"
            /\ procs[t].st # "none"
            /\ procs[t].st \in {"created", "alive"} =>
                  procs[t].config.browserAudioPath = NoPath

\* C16's case: the acquisition failed and the process is running
C16_RunningPrimaryOnly ==
    /\ AcquisitionFailed(1)
    /\ procs[1].st = "alive"
    /\ mixer.isRunning

\* C17: in device mode, once the acquisition of a start request has
\* returned no path, the capture subprocess the request spawned is not alive.
C17_DeviceTimeoutKillsCapture ==
    \A t \in Reqs :
        /\ appConfig.audioMode = "device"
        /\ tasks[t].kind = "start"
        /\ tasks[t].pc \in {"awaitEnd", "done"}
        /\ tasks[t].path = NoPath
        => t \notin captures

\* C18: in url mode the path a start request hands to the mixer is the
\* configured URL if its scheme is http or https, and none otherwise.
C18_UrlSchemeValidated ==
    \A t \in Reqs :
        /\ appConfig.audioMode = "url"
        /\ tasks[t].kind = "start"
        /\ tasks[t].pc \in {"awaitEnd", "done"}
        => tasks[t].path = IF Scheme(appConfig.audioUrl) \in {"http", "https"}
                           THEN appConfig.audioUrl ELSE NoPath

\* The secondary input of a command with the config c is read in a loop
Loops(c) ==
    \E i \in 1..Len(SecondaryInputOptions(c)) :
        SecondaryInputOptions(c)[i] = "-stream_loop"

\* C19: the secondary input of a command repeats indefinitely if and only if
\* it is the local placeholder file of browser mode; a url-mode or
\* device-mode source is read without the loop option.
C19_LoopOnlyPlaceholder ==
    \A p \in Pending(State) :
        Loops(procs[p].config) <=>
            /\ appConfig.audioMode = "browser"
            /\ procs[p].config.browserAudioPath = AudioPath

\* C20: in disabled mode a start request acquires nothing and waits for
\* nothing: no browser, page or capture subprocess exists, the request goes
\* straight to mixer.start() and every command has no secondary input.
C20_DisabledAcquiresNothing ==
    appConfig.audioMode = "disabled" =>
        /\ openBrowsers = {} /\ openPages = {} /\ captures = {}
        /\ \A t \in Reqs :
              tasks[t].kind = "start" =>
                  tasks[t].pc \in {"awaitEnd", "done"} /\ tasks[t].path = NoPath
        /\ \A p \in Pending(State) :
              SecondaryInputOptions(procs[p].config) = <<>>

\* C20's case: disabled mode, the start request is over, the process alive
C20_DisabledStarted ==
    /\ appConfig.audioMode = "disabled"
    /\ tasks[1].kind = "start"
    /\ tasks[1].pc = "done"
    /\ procs[1].st = "alive"

\* Nothing is held by the capture object and nothing it acquires exists
Released(S) ==
    /\ ~S.browserAudio.isRunning
    /\ S.browserAudio.page = Null
    /\ S.browserAudio.browser = Null
    /\ S.browserAudio.ffmpegProcess = Null
    /\ ~S.audioFile
    /\ S.openPages = {} /\ S.openBrowsers = {} /\ S.captures = {}

\* The latest request is a stop that found no request in flight and is over:
\* its cleanup() ran from beginning to end with no other handler in between
CleanupCompleted ==
    /\ nreq > 0
    /\ tasks[nreq].kind = "stop"
    /\ tasks[nreq].pc = "done"
    /\ ~tasks[nreq].overlap

\* C21: cleanup() is idempotent: whether nothing was ever acquired, a
\* source was acquired, or cleanup() already ran, a cleanup() that has run
\* to its end has not raised and leaves the same state: isRunning false, no
\* page, no browser, no capture subprocess, no audio file.
C21_CleanupIdempotent ==
    CleanupCompleted => tasks[nreq].result = "ok" /\ Released(State)

\* C21's case: a start acquired the source, then two stops in a row are over
C21_CleanedTwice ==
    /\ nreq = 3
    /\ tasks[1].path = AudioPath
    /\ tasks[2].kind = "stop" /\ tasks[2].pc = "done"
    /\ CleanupCompleted
    /\ tasks[2].saw = "running"

\* C22: with a kill() or an unlink that fails during teardown, a stop
\* request that has run to its end leaves the pipeline idle: the mixer not
\* running and holding no command, the capture object not running and
\* holding no subprocess.
C22_TeardownFailureStillIdle ==
    CleanupCompleted =>
        /\ ~mixer.isRunning /\ mixer.ffmpegProcess = Null
        /\ ~browserAudio.isRunning /\ browserAudio.ffmpegProcess = Null

\* The command a mixer just constructed builds when start() is given cfg
FreshGraph(cfg) == BuildGraph(MergeConfig(MixerDefaultConfig, cfg))

\* C23: graph construction is deterministic: the command a start request
\* creates is the one a mixer just constructed would build from the config
\* the request gave, whatever was called on the mixer before.
C23_GraphDeterministic ==
    \A t \in Pending(State) :
        tasks[t].kind = "start" =>
            BuildGraph(procs[t].config) = FreshGraph(tasks[t].arg.val)

\* C23's case: a start, a volumes update that changed the mixer's config and
\* restarted, then a start whose command is running
C23_StartAfterUpdate ==
    /\ nreq = 3
    /\ tasks[1].kind = "start"
    /\ tasks[2].kind = "volumes" /\ tasks[2].saw = "running"
    /\ tasks[3].kind = "start"
    /\ procs[2].st = "exited"
    /\ procs[3].st = "alive"
    /\ Truthy(procs[3].config.browserAudioPath)

\* The filters of the graph g that read the stream src
FiltersOf(g, src) ==
    {g.filterComplex[i] : i \in {j \in 1..Len(g.filterComplex) :
                                    g.filterComplex[j].src = <<src>>}}

\* The filter f is a gain of factor vol / 100, followed by a delay of exactly
\* ms milliseconds on both channels if ms > 0 and by nothing if ms = 0
GainThenDelay(f, vol, ms) ==
    /\ f.ops[1].op = "volume"
    /\ f.ops[1].a * 100 = vol * f.ops[1].b
    /\ IF ms > 0
       THEN Len(f.ops) = 2 /\ f.ops[2].op = "adelay"
            /\ f.ops[2].a = ms /\ f.ops[2].b = ms
       ELSE Len(f.ops) = 1

\* The volumes and delays of the config c are within their ranges
InRangeConfig(c) ==
    /\ \A k \in {"rtmpVolume", "browserVolume"} : c[k] >= 0 /\ c[k] <= MaxVolume
    /\ \A k \in {"rtmpDelay", "browserDelay"} : c[k] >= 0 /\ c[k] <= MaxDelay

\* C24: for volumes and delays within their ranges, the graph of every
\* command has one filter on the primary audio, a gain of rtmpVolume / 100
\* then the delay rtmpDelay, and, when there is a secondary source, one
\* filter on the secondary audio, a gain of browserVolume / 100 then the
\* delay browserDelay.
C24_GainAndDelayStages ==
    \A p \in Pending(State) :
        LET c == procs[p].config
            g == BuildGraph(c)
        IN InRangeConfig(c) =>
            /\ Cardinality(FiltersOf(g, "0:a")) = 1
            /\ \A f \in FiltersOf(g, "0:a") :
                  GainThenDelay(f, c.rtmpVolume, c.rtmpDelay)
            /\ Truthy(c.browserAudioPath) =>
                  /\ Cardinality(FiltersOf(g, "1:a")) = 1
                  /\ \A f \in FiltersOf(g, "1:a") :
                        GainThenDelay(f, c.browserVolume, c.browserDelay)

\* C24's case: both streams, the primary at the upper ends of the ranges,
\* the secondary at the lower ends
C24_RangeEnds ==
    /\ procs[1].st = "alive"
    /\ Truthy(procs[1].config.browserAudioPath)
    /\ procs[1].config.rtmpVolume = MaxVolume
    /\ procs[1].config.rtmpDelay = MaxDelay
    /\ procs[1].config.browserVolume = 0
    /\ procs[1].config.browserDelay = 0

\* The labels of the graph, and a label as -map names it
Labels == {"v0", "a0", "a1", "aout"}

Bracket(l) ==
    CASE l = "v0" -> "[v0]"
      [] l = "a0" -> "[a0]"
      [] l = "a1" -> "[a1]"
      [] l = "aout" -> "[aout]"

\* The output options of g contain the option o
HasOption(g, o) ==
    \E i \in 1..Len(g.outputOptions) : g.outputOptions[i] = o

\* The filters of g whose output is the label l
Producers(g, l) ==
    {i \in 1..Len(g.filterComplex) : g.filterComplex[i].dst = l}

\* C25: the video path depends on the primary delay only.  With rtmpDelay > 0
\* one filter shifts the timestamps of the input video by rtmpDelay / 1000 s
\* into the label that is mapped, and the video is re-encoded; with
\* rtmpDelay = 0 no filter reads the video, the input video is mapped and
\* the codec is copy.  Every mapped label is the output of exactly one filter.
C25_VideoPath ==
    \A p \in Pending(State) :
        LET c == procs[p].config
            g == BuildGraph(c)
        IN /\ IF c.rtmpDelay > 0
              THEN /\ FiltersOf(g, "0:v") =
                          {Filter(<<"0:v">>, <<Setpts(c.rtmpDelay)>>, "v0")}
                   /\ HasOption(g, <<"-map", Bracket("v0")>>)
                   /\ ~HasOption(g, <<"-map", "0:v">>)
                   /\ HasOption(g, <<"-c:v", "libx264">>)
                   /\ ~HasOption(g, <<"-c:v", "copy">>)
              ELSE /\ FiltersOf(g, "0:v") = {}
                   /\ Producers(g, "v0") = {}
                   /\ HasOption(g, <<"-map", "0:v">>)
                   /\ ~HasOption(g, <<"-map", Bracket("v0")>>)
                   /\ HasOption(g, <<"-c:v", "copy">>)
                   /\ ~HasOption(g, <<"-c:v", "libx264">>)
           /\ \A l \in Labels :
                 HasOption(g, <<"-map", Bracket(l)>>) =>
                     Cardinality(Producers(g, l)) = 1

\* C25's case: a command whose video is delayed, with a secondary source
\* that is not
C25_DelayedVideo ==
    /\ procs[1].st = "alive"
    /\ Truthy(procs[1].config.browserAudioPath)
    /\ procs[1].config.rtmpDelay = 1
    /\ procs[1].config.browserDelay = 0

\* The filters of g that merge streams
Merges(g) ==
    {i \in 1..Len(g.filterComplex) :
        \E k \in 1..Len(g.filterComplex[i].ops) :
            g.filterComplex[i].ops[k].op = Amix.op}

\* C26: the graph has a merge filter if and only if there is a secondary
\* source.  With one there are two inputs, the filters of the primary and of
\* the secondary audio write a0 and a1, and one amix with duration=longest
\* reads both and writes the final audio; without one there is one input, no
\* merge, and the filter of the primary audio writes the final audio.
C26_MergeIffSecondary ==
    \A p \in Pending(State) :
        LET c == procs[p].config
            g == BuildGraph(c)
        IN /\ HasOption(g, <<"-map", Bracket("aout")>>)
           /\ Cardinality(Producers(g, "aout")) = 1
           /\ IF Truthy(c.browserAudioPath)
              THEN /\ Len(g.inputs) = 2
                   /\ Cardinality(Merges(g)) = 1
                   /\ \A i \in Merges(g) :
                         g.filterComplex[i] =
                             Filter(<<"a0", "a1">>, <<Amix>>, "aout")
                   /\ \A f \in FiltersOf(g, "0:a") : f.dst = "a0"
                   /\ \A f \in FiltersOf(g, "1:a") : f.dst = "a1"
                   /\ FiltersOf(g, "0:a") # {} /\ FiltersOf(g, "1:a") # {}
              ELSE /\ Len(g.inputs) = 1
                   /\ Merges(g) = {}
                   /\ FiltersOf(g, "1:a") = {}
                   /\ \A f \in FiltersOf(g, "0:a") : f.dst = "aout"
                   /\ FiltersOf(g, "0:a") # {}

\* C26's case: a command with a secondary source is running
C26_Merged ==
    /\ procs[1].st = "alive"
    /\ Truthy(procs[1].config.browserAudioPath)
    /\ procs[1].config.rtmpDelay = 0
    /\ procs[1].config.browserDelay = MaxDelay

\* The fields of the mixer's config that are no live parameter
FrameFields ==
    {"inputRtmpUrl", "outputRtmpUrl", "browserAudioPath", "videoBitrate"}

\* The source is neither acquired nor released in this step
SourceUntouched ==
    /\ browserAudio' = browserAudio
    /\ openBrowsers' = openBrowsers
    /\ openPages' = openPages
    /\ captures' = captures
    /\ audioFile' = audioFile

C28_StatusPure ==
    [][(nreq' = nreq + 1 /\ tasks'[nreq'].kind = "status") =>
          /\ mixer' = mixer
          /\ procs' = procs
          /\ SourceUntouched
          /\ appConfig' = appConfig
          /\ cleanups' = cleanups
          /\ \A t \in 1..nreq : tasks'[t] = tasks[t]]_vars

\* C28's case: a status read while the source is held and the mixer runs
C28_StatusWhileRunning ==
    /\ nreq >= 2
    /\ tasks[2].kind = "status"
    /\ tasks[2].saw = "running"
    /\ CaptureGetStatus(State).hasBrowser
    /\ GetStatus(State).isRunning

\* The command the mixer holds receives its 'start' event in this step
HeldCommandStarts ==
    /\ mixer.ffmpegProcess # Null
    /\ procs[mixer.ffmpegProcess].st = "created"
    /\ procs'[mixer.ffmpegProcess].st = "alive"

\* C29: the mixer reports running only after the engine confirmed startup:
\* isRunning is false in the step in which start() creates its command and
\* returns, and it turns true only in the step of the 'start' event of the
\* command the latest start() created, the one the mixer holds.
C29_RunningOnlyAfterStartup ==
    [][/\ (\E p \in Reqs : procs[p].st = "none" /\ procs'[p].st = "created")
            => ~mixer'.isRunning
       /\ (~mixer.isRunning /\ mixer'.isRunning) => HeldCommandStarts]_vars

\* C30: what a start request acquired is released on its error path: once
\* a start request that had obtained an audio path has answered with an
\* error, its browser, its page and its capture subprocess are gone.
C30_ErrorPathReleases ==
    \A t \in Reqs :
        (/\ tasks[t].kind = "start"
         /\ tasks[t].pc = "done"
         /\ tasks[t].result = "error"
         /\ tasks[t].path # NoPath)
        => /\ t \notin openBrowsers
           /\ t \notin openPages
           /\ t \notin captures

\* Where a start request stands while init() runs, its cleanup() included
InitPcs == {"launch", "newPage", "navigate", "pageClose", "browserClose"}

\* The init() of start request t throws in this step: its cleanup() is over
\* and the error goes to the handler
InitThrows(t) ==
    /\ tasks[t].kind = "start"
    /\ tasks[t].pc \in InitPcs
    /\ tasks'[t].pc \notin InitPcs \cup {"stabilize"}

\* Every request so far arrived when no other was in flight
OneAtATime == \A u \in Reqs : ~tasks[u].overlap

\* C31: init() cleans up before rethrowing.  In the step in which the init()
\* of a start request throws, the requests having come one at a time,
\* isRunning is false afterwards, the instance holds no browser and no page,
\* and no browser or page is open.
C31_InitFailureCleansUp ==
    [][\A t \in Reqs :
          (InitThrows(t) /\ OneAtATime) =>
              /\ ~browserAudio'.isRunning
              /\ browserAudio'.browser = Null
              /\ browserAudio'.page = Null
              /\ openBrowsers' = {}
              /\ openPages' = {}]_vars

\* C32: one capture instance keeps at most one browser and at most one
\* capture subprocess alive, each of them the one it references.  Stated for
\* runs in which the requests came one at a time.
C32_OneBrowserOneCapture ==
    OneAtATime =>
        /\ Cardinality(openBrowsers) <= 1
        /\ Cardinality(captures) <= 1
        /\ \A b \in openBrowsers : browserAudio.browser = b
        /\ \A c \in captures : browserAudio.ffmpegProcess = c

\* C33: the mixer's status agrees with process liveness: when
\* getStatus().isRunning is false no transcoding process is alive, and when
\* it is true the command the mixer holds is alive.  Stated for runs in
\* which the requests came one at a time.
C33_StatusAgreesWithLiveness ==
    OneAtATime =>
        IF GetStatus(State).isRunning
        THEN mixer.ffmpegProcess \in Alive(State)
        ELSE Alive(State) = {}

\* Nothing is under way: no request in flight, no command waiting to be
\* spawned, no process signalled and not yet gone
Quiescent ==
    /\ InFlight(State) = {}
    /\ \A p \in Reqs :
          /\ procs[p].st # "created"
          /\ procs[p].st = "alive" => procs[p].sig = "none"

\* The latest request is a volumes request that arrived while a command was
\* being started or running, and it was answered with success
AcknowledgedUpdate ==
    /\ nreq > 0
    /\ tasks[nreq].kind = "volumes"
    /\ tasks[nreq].saw \in {"starting", "running"}
    /\ tasks[nreq].pc = "done"
    /\ tasks[nreq].result = "ok"

\* C34: an acknowledged live-parameter update is never lost: once nothing is
\* under way, every process left running was built with the values the
\* update supplied.  Stated for runs in which the requests came one at a
\* time.
C34_AcknowledgedUpdateKept ==
    (OneAtATime /\ AcknowledgedUpdate /\ Quiescent) =>
        \A p \in Alive(State) : Carries(procs[p].config, tasks[nreq].body)

\* C35: the pipeline recovers from a failure by a start alone.  A start
\* request that arrives in the failed state (the command held is over, none
\* is pending, no request in flight) is over in its own step with success,
\* and has created exactly one command, which the mixer holds.
C35_StartRecovers ==
    [][(/\ Failed(State)
        /\ InFlight(State) = {}
        /\ nreq' = nreq + 1
        /\ tasks'[nreq'].kind = "start") =>
          /\ tasks'[nreq'].pc = "done"
          /\ tasks'[nreq'].result = "ok"
          /\ {p \in Reqs : procs'[p].st \in {"created", "alive"}} = {nreq'}
          /\ procs'[nreq'].st = "created"
          /\ mixer'.ffmpegProcess = nreq']_vars

\* C35's case: the first process exited by itself, no stop was ever
\* requested, and the process of a later start is the one alive, with
\* isRunning set
C35_Recovered ==
    /\ nreq >= 2
    /\ \A t \in Reqs : tasks[t].kind \in {"start", "none"}
    /\ procs[1].st \in {"exited", "failed"}
    /\ tasks[nreq].saw = "idle"
    /\ Alive(State) = {nreq}
    /\ mixer.ffmpegProcess = nreq
    /\ mixer.isRunning

\* The transcoding processes alive whose secondary input is the audio file
Readers(S) ==
    {p \in Alive(S) : S.procs[p].config.browserAudioPath = AudioPath}

\* The cleanup() of a stop request is over in this step and has deleted the
\* audio file
StopDeletesFile ==
    /\ audioFile
    /\ ~audioFile'
    /\ \E t \in Reqs :
          /\ tasks[t].kind = "stop"
          /\ tasks[t].pc # "done"
          /\ tasks'[t].pc = "done"

\* C36: on stop the secondary source is released only after the transcoding
\* process has ended: when the cleanup() of a stop request deletes the audio
\* file, no transcoding process that reads the file is alive.
C36_ReleaseAfterTranscoderEnd ==
    [][StopDeletesFile => Readers(State) = {}]_vars

\* The device-mode acquisition of start request t returns a path in this step
DeviceReturnsPath(t) ==
    /\ appConfig.audioMode = "device"
    /\ tasks[t].kind = "start"
    /\ tasks[t].pc = "fileWait"
    /\ tasks'[t].pc # "fileWait"
    /\ tasks'[t].path # NoPath

\* C37: device-mode acquisition returns a non-null audio path only when the
\* capture subprocess spawned by that same acquisition is alive.  Stated for
\* runs in which the requests came one at a time.
C37_PathOnlyFromLiveCapture ==
    [][\A t \in Reqs :
          (OneAtATime /\ DeviceReturnsPath(t)) => t \in captures]_vars

====
